---- MODULE Spec2Model ----
(***************************************************************************)
(* The `diffoci diff` command (cmd/diffoci/commands/diff/diff.go):         *)
(* PreRunE expands the alias flags, action builds diff.Options, acquires   *)
(* the two images, calls diff.Diff and maps the outcome to an exit code.   *)
(***************************************************************************)
EXTENDS Integers, Sequences, FiniteSets, TLC

VARIABLES
    pc,          \* the step the command is at
    rawFlags,    \* boolean flag values as parsed from the command line
    supplied,    \* boolean flags given explicitly on the command line
    flags,       \* current boolean flag values of cmd.Flags()
    changed,     \* flags whose pflag Changed mark is set
    reportFile,  \* value of --report-file
    reportDir,   \* value of --report-dir
    pull,        \* value of --pull
    ignoreFiles, \* value of --extra-ignore-files
    args,        \* the two positional arguments
    options,     \* diff.Options under construction
    pullMode,    \* local pullMode of action
    held,        \* handles obtained by action and not released
    i,           \* loop index of the acquisition loop
    imageDescs,  \* [2]ocispec.Descriptor
    getCalls,    \* calls of ig.Get so far, with their results
    diffCall,    \* arguments of the diff.Diff call, once made
    report,      \* report returned by diff.Diff
    err,         \* error returned by diff.Diff
    exitCode,    \* local exitCode of action
    logs,        \* lines logged through log.G(ctx)
    expandCalls, \* calls of localpathutil.Expand so far, with their outcome
    exitStatus,  \* status handed to os.Exit, or NoExit
    retErr       \* error returned to cobra by PreRunE or action

vars == <<pc, rawFlags, supplied, flags, changed, reportFile, reportDir, pull,
          ignoreFiles, args, options, pullMode, held, i, imageDescs,
          getCalls, diffCall, report, err, exitCode, logs, expandCalls,
          exitStatus, retErr>>

----------------------------------------------------------------------------
(* Bounds of the model *)

\* largest number of children of a report returned by diff.Diff
MaxChildren == 2

----------------------------------------------------------------------------
(* The flag registry of NewCommand *)

AliasFlags == {"semantic", "ignore-timestamps", "ignore-file-timestamps"}

ExtraFlags ==
    {"extra-ignore-file-permissions", "extra-ignore-file-mode",
     "extra-ignore-file-content", "extra-ignore-layer-length-mismatch"}

\* every flag registered with flags.Bool
BoolFlags ==
    {"ignore-timestamps", "ignore-history", "ignore-file-order",
     "ignore-file-mode-redundant-bits", "ignore-file-timestamps",
     "ignore-file-mtime", "ignore-file-atime", "ignore-file-ctime",
     "ignore-image-timestamps", "ignore-image-name", "ignore-tar-format",
     "treat-canonical-paths-equal", "semantic", "verbose"} \cup ExtraFlags

\* the flagNames slice of the semantic alias
SemanticFlagNames ==
    <<"ignore-history", "ignore-file-order",
      "ignore-file-mode-redundant-bits", "ignore-file-mtime",
      "ignore-file-atime", "ignore-file-ctime", "ignore-image-timestamps",
      "ignore-image-name", "ignore-tar-format",
      "treat-canonical-paths-equal">>

\* variant: the ignore-timestamps alias with the file timestamps only
IgnoreTimestampsFlagNamesFileOnly ==
    <<"ignore-file-mtime", "ignore-file-atime", "ignore-file-ctime">>

\* the flagNames slice of the ignore-timestamps alias
IgnoreTimestampsFlagNames ==
    <<"ignore-file-mtime", "ignore-file-atime", "ignore-file-ctime",
      "ignore-image-timestamps">>

\* variant: the ignore-file-timestamps alias with the image timestamps too
IgnoreFileTimestampsFlagNamesWithImage ==
    <<"ignore-file-mtime", "ignore-file-atime", "ignore-file-ctime",
      "ignore-image-timestamps">>

\* the flagNames slice of the ignore-file-timestamps alias
IgnoreFileTimestampsFlagNames ==
    <<"ignore-file-mtime", "ignore-file-atime", "ignore-file-ctime">>

\* the three alias blocks of PreRunE, in source order
AliasRules ==
    <<[alias |-> "semantic", flagNames |-> SemanticFlagNames],
      [alias |-> "ignore-timestamps", flagNames |-> IgnoreTimestampsFlagNames],
      [alias |-> "ignore-file-timestamps",
       flagNames |-> IgnoreFileTimestampsFlagNames]>>

Range(s) == {s[k] : k \in 1..Len(s)}

----------------------------------------------------------------------------
(* Alias expansion (PreRunE) on a flag set fs = [val, changed, err] *)

FlagSet(val, chg) == [val |-> val, changed |-> chg, err |-> FALSE]

\* variant: a flag the user supplied keeps the user's value
SetTrueUnlessChanged(fs, f) ==
    IF f \notin BoolFlags
    THEN [fs EXCEPT !.err = TRUE]
    ELSE IF f \in fs.changed THEN fs
    ELSE [fs EXCEPT !.val[f] = TRUE, !.changed = @ \cup {f}]

\* flags.Set(f, "true"): fails on a flag that was never registered,
\* otherwise stores the value and marks the flag as changed
SetTrue(fs, f) ==
    IF f \notin BoolFlags
    THEN [fs EXCEPT !.err = TRUE]
    ELSE [fs EXCEPT !.val[f] = TRUE, !.changed = @ \cup {f}]

\* for _, f := range flagNames { if err := flags.Set(f, "true") ... return err }
RECURSIVE SetEach(_, _)
SetEach(fs, names) ==
    IF names = <<>> \/ fs.err
    THEN fs
    ELSE SetEach(SetTrue(fs, Head(names)), Tail(names))

\* variant: the targets are assigned the alias's value, true or false
ApplyRuleCopyingAlias(fs, rule) ==
    IF fs.err THEN fs
    ELSE [fs EXCEPT
            !.val = [f \in BoolFlags |->
                       IF f \in Range(rule.flagNames)
                       THEN fs.val[rule.alias] ELSE fs.val[f]],
            !.changed = @ \cup Range(rule.flagNames)]

\* one alias block: if <alias>, _ := GetBool(alias); <alias> { ... }
ApplyRule(fs, rule) ==
    IF fs.err THEN fs
    ELSE IF fs.val[rule.alias] THEN SetEach(fs, rule.flagNames)
    ELSE fs

\* the alias blocks applied in the order given (indices into AliasRules)
RECURSIVE ApplyInOrder(_, _)
ApplyInOrder(fs, order) ==
    IF order = <<>>
    THEN fs
    ELSE ApplyInOrder(ApplyRule(fs, AliasRules[Head(order)]), Tail(order))

\* the order in which PreRunE runs its blocks
SourceOrder == <<1, 2, 3>>

Resolve(fs) == ApplyInOrder(fs, SourceOrder)

----------------------------------------------------------------------------
(* Values *)

NoExit == -1

NilError == [isNil |-> TRUE, unavailable |-> FALSE, msg |-> <<>>]

Error(text, unavail) ==
    [isNil |-> FALSE, unavailable |-> unavail, msg |-> <<text>>]

NilReport == [isNil |-> TRUE, children |-> 0]

Report(n) == [isNil |-> FALSE, children |-> n]

\* the zero ocispec.Descriptor
ZeroDesc == "zero"

Descs == {"sha256:aaa", "sha256:bbb"}

Refs == {"alpine:3.18.2", "alpine:3.18.3"}

PullMissing == "missing"

PullValues == {"always", PullMissing, "never", "sometimes"}

Plats == <<"linux/amd64">>

DefaultMaxScale == 1

\* the hint appended by fmt.Errorf (its backquotes left out)
Hint == "(Hint: specify --platform explicitly, e.g., --platform=linux/amd64)"

\* paths are sequences of components; the empty path is the unset flag
NoPath == <<>>

Home == "/home/user"

PathValues == {NoPath, <<"~", "out">>, <<"~nobody", "out">>}

\* localpathutil.Expand did not expand: no path, and an error with this text
ExpandFailure(text) ==
    [path |-> NoPath,
     err |-> [isNil |-> FALSE, unavailable |-> FALSE, msg |-> text]]

\* what localpathutil.Expand may answer for a non-empty path: a leading "~"
\* becomes the home directory, a leading "~name" is an error that repeats
\* the path, anything else is kept; and whatever the path, the home
\* directory may be unknown, an error that does not repeat the path
Expand(p) ==
    {ExpandFailure(<<"$HOME is not defined">>)}
        \cup (IF p[1] = "~"
              THEN {[path |-> <<Home>> \o Tail(p), err |-> NilError]}
              ELSE IF p[1] = "~nobody"
              THEN {ExpandFailure(<<"unexpandable path">> \o p)}
              ELSE {[path |-> p, err |-> NilError]})

\* Expand is called for a non-empty path only
ExpandIfSet(p) ==
    IF p = NoPath THEN {[path |-> NoPath, err |-> NilError]} ELSE Expand(p)

\* var options diff.Options
ZeroOptions ==
    [IgnoreHistory |-> FALSE, IgnoreFileOrder |-> FALSE,
     IgnoreFileModeRedundantBits |-> FALSE, IgnoreFileMTime |-> FALSE,
     IgnoreFileATime |-> FALSE, IgnoreFileCTime |-> FALSE,
     IgnoreFilePermissions |-> FALSE, IgnoreFileMode |-> FALSE,
     IgnoreFileContent |-> FALSE, IgnoreLayerLengthMismatch |-> FALSE,
     IgnoreFiles |-> <<>>, IgnoreImageTimestamps |-> FALSE,
     IgnoreImageName |-> FALSE, IgnoreTarFormat |-> FALSE,
     CanonicalPaths |-> FALSE, ReportFile |-> NoPath, ReportDir |-> NoPath,
     EventHandler |-> "none", MaxScale |-> 0]

NoCall == [made |-> FALSE, descs |-> <<ZeroDesc, ZeroDesc>>,
           options |-> ZeroOptions, store |-> FALSE]

LogLine(level, kind, n, text) ==
    [level |-> level, kind |-> kind, n |-> n, text |-> text]

----------------------------------------------------------------------------
(* Initial states *)

\* the flag assignment in which exactly the flags of S are true
Raw(S) == [f \in BoolFlags |-> f \in S]

TrueSet(val) == {f \in BoolFlags : val[f]}

\* flag assignments used for whole runs of the command
RunFlagSets ==
    {Raw({}), Raw({"semantic"}), Raw({"ignore-timestamps"}),
     Raw({"ignore-file-timestamps", "verbose"}),
     Raw({"ignore-history", "extra-ignore-file-mode"}), Raw(BoolFlags)}

InitRest ==
    /\ pc = "PreRunE"
    /\ flags = rawFlags
    /\ changed = supplied
    /\ options = ZeroOptions
    /\ pullMode = ""
    /\ held = {}
    /\ i = 0
    /\ imageDescs = <<ZeroDesc, ZeroDesc>>
    /\ getCalls = <<>>
    /\ diffCall = NoCall
    /\ report = NilReport
    /\ err = NilError
    /\ exitCode = 0
    /\ logs = <<>>
    /\ expandCalls = <<>>
    /\ exitStatus = NoExit
    /\ retErr = NilError

Init ==
    /\ rawFlags \in RunFlagSets
    /\ supplied \in {TrueSet(rawFlags), BoolFlags}
    /\ reportFile \in PathValues
    /\ reportDir \in PathValues
    /\ pull \in PullValues
    /\ ignoreFiles \in {<<>>, <<"etc/hostname">>}
    /\ args \in Refs \X Refs
    /\ InitRest

\* every assignment of the boolean flags that the alias blocks and the
\* option reads use (verbose, read only for the event handler, is left at
\* its default), the other inputs at their defaults
InitAlias ==
    /\ rawFlags \in {Raw(S) : S \in SUBSET (BoolFlags \ {"verbose"})}
    /\ supplied \in {TrueSet(rawFlags), BoolFlags}
    /\ reportFile = NoPath
    /\ reportDir = NoPath
    /\ pull = PullMissing
    /\ ignoreFiles = <<>>
    /\ args = <<"alpine:3.18.2", "alpine:3.18.3">>
    /\ InitRest

----------------------------------------------------------------------------
(* PreRunE *)

PreRunE ==
    /\ pc = "PreRunE"
    /\ LET fs == Resolve(FlagSet(flags, changed)) IN
        /\ flags' = fs.val
        /\ changed' = fs.changed
        /\ IF fs.err
           THEN /\ pc' = "Returned"
                /\ retErr' = Error("no such flag", FALSE)
           ELSE /\ pc' = "NewBackend"
                /\ UNCHANGED retErr
    /\ UNCHANGED <<rawFlags, supplied, reportFile, reportDir, pull, ignoreFiles, args,
                   options, pullMode, held, i, imageDescs, getCalls,
                   diffCall, report, err, exitCode, logs, expandCalls,
                   exitStatus>>

NextAlias == PreRunE

SpecAlias == InitAlias /\ [][NextAlias]_vars

----------------------------------------------------------------------------
(* action *)

Return(e) ==
    /\ pc' = "Returned"
    /\ retErr' = e

\* backend, err := backendmanager.NewBackend(cmd)
NewBackend ==
    /\ pc = "NewBackend"
    /\ \E ok \in BOOLEAN :
        IF ok
        THEN /\ held' = held \cup {"backend"}
             /\ pc' = "ParsePlatformFlags"
             /\ UNCHANGED retErr
        ELSE /\ Return(Error("backend", FALSE))
             /\ UNCHANGED held
    /\ UNCHANGED <<rawFlags, supplied, flags, changed, reportFile, reportDir, pull,
                   ignoreFiles, args, options, pullMode, i, imageDescs,
                   getCalls, diffCall, report, err, exitCode, logs,
                   expandCalls, exitStatus>>

\* plats, err := flagutil.ParsePlatformFlags(flags), then the Infof line
ParsePlatformFlags ==
    /\ pc = "ParsePlatformFlags"
    /\ \E ok \in BOOLEAN :
        IF ok
        THEN /\ logs' = Append(logs, LogLine("info", "platforms", 0, Plats))
             /\ pc' = "ReadOptions"
             /\ UNCHANGED retErr
        ELSE /\ Return(Error("platform", FALSE))
             /\ UNCHANGED logs
    /\ UNCHANGED <<rawFlags, supplied, flags, changed, reportFile, reportDir, pull,
                   ignoreFiles, args, options, pullMode, held, i, imageDescs,
                   getCalls, diffCall, report, err, exitCode, expandCalls,
                   exitStatus>>

\* variant: IgnoreFileATime is read from the mtime flag
OptionFlagNamesATimeFromMTime ==
    <<<<"IgnoreHistory", "ignore-history">>,
      <<"IgnoreFileOrder", "ignore-file-order">>,
      <<"IgnoreFileModeRedundantBits", "ignore-file-mode-redundant-bits">>,
      <<"IgnoreFileMTime", "ignore-file-mtime">>,
      <<"IgnoreFileATime", "ignore-file-mtime">>,
      <<"IgnoreFileCTime", "ignore-file-ctime">>,
      <<"IgnoreFilePermissions", "extra-ignore-file-permissions">>,
      <<"IgnoreFileMode", "extra-ignore-file-mode">>,
      <<"IgnoreFileContent", "extra-ignore-file-content">>,
      <<"IgnoreLayerLengthMismatch", "extra-ignore-layer-length-mismatch">>,
      <<"IgnoreImageTimestamps", "ignore-image-timestamps">>,
      <<"IgnoreImageName", "ignore-image-name">>,
      <<"IgnoreTarFormat", "ignore-tar-format">>,
      <<"CanonicalPaths", "treat-canonical-paths-equal">>>>

\* the GetBool reads of action: options field <- flag name, in source order
OptionFlagNames ==
    <<<<"IgnoreHistory", "ignore-history">>,
      <<"IgnoreFileOrder", "ignore-file-order">>,
      <<"IgnoreFileModeRedundantBits", "ignore-file-mode-redundant-bits">>,
      <<"IgnoreFileMTime", "ignore-file-mtime">>,
      <<"IgnoreFileATime", "ignore-file-atime">>,
      <<"IgnoreFileCTime", "ignore-file-ctime">>,
      <<"IgnoreFilePermissions", "extra-ignore-file-permissions">>,
      <<"IgnoreFileMode", "extra-ignore-file-mode">>,
      <<"IgnoreFileContent", "extra-ignore-file-content">>,
      <<"IgnoreLayerLengthMismatch", "extra-ignore-layer-length-mismatch">>,
      <<"IgnoreImageTimestamps", "ignore-image-timestamps">>,
      <<"IgnoreImageName", "ignore-image-name">>,
      <<"IgnoreTarFormat", "ignore-tar-format">>,
      <<"CanonicalPaths", "treat-canonical-paths-equal">>>>

\* flags.GetBool(name) fails on a name that is not a registered bool flag
GetBoolFails(name) == name \notin BoolFlags

\* options.<field>, err = flags.GetBool(<flag>), for each pair in turn
RECURSIVE ReadBools(_, _, _)
ReadBools(opts, val, pairs) ==
    IF pairs = <<>>
    THEN [options |-> opts, err |-> NilError]
    ELSE LET field == Head(pairs)[1]
             name == Head(pairs)[2]
         IN IF GetBoolFails(name)
            THEN [options |-> opts, err |-> Error("flag accessed but not defined", FALSE)]
            ELSE ReadBools([opts EXCEPT ![field] = val[name]], val, Tail(pairs))

\* fmt.Errorf("invalid <flag> path %q: %w", <path>, err)
InvalidPath(flagName, path, e) ==
    [isNil |-> FALSE, unavailable |-> e.unavailable,
     msg |-> <<"invalid", flagName, "path">> \o path \o e.msg]

\* variant: the warning is logged once the path has been expanded
ReadReportFileWarnLate(opts, lg, x) ==
    IF reportFile = NoPath
    THEN [options |-> [opts EXCEPT !.ReportFile = reportFile],
          logs |-> lg, err |-> NilError]
    ELSE LET o == [opts EXCEPT !.ReportFile = x.path]
             l == Append(lg, LogLine("warning", "report-file", 0, <<>>))
         IN [options |-> o, logs |-> IF x.err.isNil THEN l ELSE lg,
             err |-> IF x.err.isNil THEN NilError
                     ELSE InvalidPath("report-file", o.ReportFile, x.err)]

\* options.ReportFile: the warning, then localpathutil.Expand
ReadReportFile(opts, lg, x) ==
    IF reportFile = NoPath
    THEN [options |-> [opts EXCEPT !.ReportFile = reportFile],
          logs |-> lg, err |-> NilError]
    ELSE LET o == [opts EXCEPT !.ReportFile = x.path]
             l == Append(lg, LogLine("warning", "report-file", 0, <<>>))
         IN [options |-> o, logs |-> l,
             err |-> IF x.err.isNil THEN NilError
                     ELSE InvalidPath("report-file", o.ReportFile, x.err)]

\* variant: the error of Expand is dropped
ReadReportDirIgnoringError(opts, x) ==
    [options |-> [opts EXCEPT !.ReportDir = x.path], err |-> NilError]

\* options.ReportDir: localpathutil.Expand
ReadReportDir(opts, x) ==
    IF reportDir = NoPath
    THEN [options |-> [opts EXCEPT !.ReportDir = reportDir], err |-> NilError]
    ELSE LET o == [opts EXCEPT !.ReportDir = x.path]
         IN [options |-> o,
             err |-> IF x.err.isNil THEN NilError
                     ELSE InvalidPath("report-dir", o.ReportDir, x.err)]

\* EventHandler, MaxScale
ReadRest(opts) ==
    [opts EXCEPT !.EventHandler = IF flags["verbose"] THEN "verbose" ELSE "default",
                 !.MaxScale = DefaultMaxScale]

\* the record of one call of localpathutil.Expand
ExpandCall(flagName, path, x) ==
    [flag |-> flagName, path |-> path, ok |-> x.err.isNil]

\* variant: a value that is no pull mode is replaced by the default
ReadPullValidated(p) ==
    IF p \in {"always", "missing", "never"} THEN p ELSE PullMissing

\* pullMode, err := flags.GetString("pull")
ReadPull(p) == p

\* var options diff.Options ... pullMode, err := flags.GetString("pull")
ReadOptions ==
    /\ pc = "ReadOptions"
    /\ \E xf \in ExpandIfSet(reportFile), xd \in ExpandIfSet(reportDir) :
       LET b  == ReadBools([options EXCEPT !.IgnoreFiles = ignoreFiles],
                           flags, OptionFlagNames)
           rf == ReadReportFile(b.options, logs, xf)
           rd == ReadReportDir(rf.options, xd)
           cf == IF reportFile = NoPath THEN <<>>
                 ELSE <<ExpandCall("report-file", reportFile, xf)>>
           cd == IF reportDir = NoPath THEN <<>>
                 ELSE <<ExpandCall("report-dir", reportDir, xd)>>
       IN IF ~b.err.isNil
          THEN /\ options' = b.options
               /\ Return(b.err)
               /\ UNCHANGED <<logs, pullMode, expandCalls>>
          ELSE IF ~rf.err.isNil
          THEN /\ options' = rf.options
               /\ logs' = rf.logs
               /\ expandCalls' = expandCalls \o cf
               /\ Return(rf.err)
               /\ UNCHANGED pullMode
          ELSE IF ~rd.err.isNil
          THEN /\ options' = rd.options
               /\ logs' = rf.logs
               /\ expandCalls' = expandCalls \o cf \o cd
               /\ Return(rd.err)
               /\ UNCHANGED pullMode
          ELSE /\ options' = ReadRest(rd.options)
               /\ logs' = rf.logs
               /\ expandCalls' = expandCalls \o cf \o cd
               /\ pullMode' = ReadPull(pull)
               /\ pc' = "imagegetterNew"
               /\ UNCHANGED retErr
    /\ UNCHANGED <<rawFlags, supplied, flags, changed, reportFile, reportDir, pull,
                   ignoreFiles, args, held, i, imageDescs, getCalls,
                   diffCall, report, err, exitCode, exitStatus>>

\* ig, err := imagegetter.New(cmd.ErrOrStderr(), backend)
imagegetterNew ==
    /\ pc = "imagegetterNew"
    /\ \E ok \in BOOLEAN :
        IF ok
        THEN /\ pc' = "Get"
             /\ UNCHANGED retErr
        ELSE Return(Error("imagegetter", FALSE))
    /\ UNCHANGED <<rawFlags, supplied, flags, changed, reportFile, reportDir, pull,
                   ignoreFiles, args, options, pullMode, held, i, imageDescs,
                   getCalls, diffCall, report, err, exitCode, logs,
                   expandCalls, exitStatus>>

\* what ig.Get may answer: no image, or an image with some descriptor
GetResults(ref) ==
    {[ok |-> FALSE, Name |-> "", Target |-> ZeroDesc]}
        \cup {[ok |-> TRUE, Name |-> ref, Target |-> d] : d \in Descs}

\* args[i] of the acquisition loop (i counts from 0)
Arg(k) == args[k + 1]

\* variant: the descriptor is stored at the other index
StoreDescMirrored(descs, k, target) == [descs EXCEPT ![2 - k] = target]

\* imageDescs[i] = img.Target
StoreDesc(descs, k, target) == [descs EXCEPT ![k + 1] = target]

\* variant: the error of ig.Get is not looked at
GetFailedNever(img) == FALSE

\* if err != nil, after ig.Get
GetFailed(img) == ~img.ok

\* one round of: for i := 0; i < 2; i++ { img, err := ig.Get(...) ... }
Get ==
    /\ pc = "Get"
    /\ i < 2
    /\ \E img \in GetResults(Arg(i)) :
        /\ getCalls' = Append(getCalls,
               [ref |-> Arg(i), plats |-> Plats, mode |-> pullMode,
                ok |-> img.ok, Target |-> img.Target])
        /\ IF ~GetFailed(img)
           THEN /\ logs' = Append(logs,
                        LogLine("debug", "input", i, <<img.Name, img.Target>>))
                /\ imageDescs' = StoreDesc(imageDescs, i, img.Target)
                /\ i' = i + 1
                /\ pc' = IF i + 1 < 2 THEN "Get" ELSE "Diff"
                /\ UNCHANGED retErr
           ELSE /\ Return(Error("get", FALSE))
                /\ UNCHANGED <<logs, imageDescs, i>>
    /\ UNCHANGED <<rawFlags, supplied, flags, changed, reportFile, reportDir, pull,
                   ignoreFiles, args, options, pullMode, held, diffCall,
                   report, err, exitCode, expandCalls, exitStatus>>

\* the reports diff.Diff may return
Reports == {NilReport} \cup {Report(n) : n \in 0..MaxChildren}

\* the errors diff.Diff may return
DiffErrors ==
    {NilError, Error("unavailable", TRUE), Error("diff failed", FALSE)}

\* contentStore := backend.ContentStore(); report, err := diff.Diff(...)
Diff ==
    /\ pc = "Diff"
    /\ held' = held \cup {"contentStore"}
    /\ diffCall' = [made |-> TRUE, descs |-> imageDescs, options |-> options,
                    store |-> TRUE]
    /\ \E r \in Reports, e \in DiffErrors :
        /\ report' = r
        /\ err' = e
    /\ pc' = "Interpret"
    /\ UNCHANGED <<rawFlags, supplied, flags, changed, reportFile, reportDir, pull,
                   ignoreFiles, args, options, pullMode, i, imageDescs,
                   getCalls, exitCode, logs, expandCalls, exitStatus,
                   retErr>>

\* variant: the report is tested after the error
ExitCodeOfReportLast(r, e) ==
    LET afterError == IF ~e.isNil THEN 2 ELSE 0
    IN IF ~r.isNil /\ r.children > 0 THEN 1 ELSE afterError

\* variant: any non-nil report counts as a difference
ExitCodeOfAnyReport(r, e) ==
    LET afterReport == IF ~r.isNil THEN 1 ELSE 0
    IN IF ~e.isNil THEN 2 ELSE afterReport

\* variant: the two conditions add up
ExitCodeOfAdding(r, e) ==
    (IF ~r.isNil /\ r.children > 0 THEN 1 ELSE 0)
        + (IF ~e.isNil THEN 2 ELSE 0)

\* var exitCode int; the two ifs that assign it, in source order
ExitCodeOf(r, e) ==
    LET afterReport == IF ~r.isNil /\ r.children > 0 THEN 1 ELSE 0
    IN IF ~e.isNil THEN 2 ELSE afterReport

\* variant: the hint is appended to every error
WithHintAlways(e) == [e EXCEPT !.msg = @ \o <<Hint>>]

\* errors.Is(err, errdefs.ErrUnavailable) => fmt.Errorf("%w (Hint: ...)", err)
WithHint(e) ==
    IF e.unavailable THEN [e EXCEPT !.msg = @ \o <<Hint>>] ELSE e

\* variant: the error is logged whenever the exit code is not 0
InterpretLogsOnExitCode(e, code) ==
    IF code # 0
    THEN <<LogLine("error", "error", 0, WithHint(e).msg),
           LogLine("debug", "exiting with code", code, <<>>)>>
    ELSE <<>>

\* variant: the exit code line is written before the error line
InterpretLogsCodeFirst(e, code) ==
    (IF code # 0
     THEN <<LogLine("debug", "exiting with code", code, <<>>)>>
     ELSE <<>>)
    \o (IF ~e.isNil
        THEN <<LogLine("error", "error", 0, WithHint(e).msg)>>
        ELSE <<>>)

\* the lines logged between diff.Diff and os.Exit
InterpretLogs(e, code) ==
    (IF ~e.isNil
     THEN <<LogLine("error", "error", 0, WithHint(e).msg)>>
     ELSE <<>>)
    \o (IF code # 0
        THEN <<LogLine("debug", "exiting with code", code, <<>>)>>
        ELSE <<>>)

\* from the report test to os.Exit(exitCode)
Interpret ==
    /\ pc = "Interpret"
    /\ LET code == ExitCodeOf(report, err) IN
        /\ exitCode' = code
        /\ err' = IF err.isNil THEN err ELSE WithHint(err)
        /\ logs' = logs \o InterpretLogs(err, code)
        /\ exitStatus' = code
    /\ pc' = "Exited"
    /\ UNCHANGED <<rawFlags, supplied, flags, changed, reportFile, reportDir, pull,
                   ignoreFiles, args, options, pullMode, held, i, imageDescs,
                   getCalls, diffCall, report, expandCalls, retErr>>

\* every assignment of the boolean flags that the options are built from,
\* given as on a command line that names only the flags it turns on
InitOptions ==
    /\ rawFlags \in {Raw(S) : S \in SUBSET (BoolFlags \ {"verbose"})}
    /\ supplied = TrueSet(rawFlags)
    /\ reportFile = NoPath
    /\ reportDir = NoPath
    /\ pull = PullMissing
    /\ ignoreFiles = <<>>
    /\ args = <<"alpine:3.18.2", "alpine:3.18.3">>
    /\ InitRest

\* the run up to the point where diff.Options is built
NextOptions ==
    \/ PreRunE
    \/ NewBackend
    \/ ParsePlatformFlags
    \/ ReadOptions

SpecOptions == InitOptions /\ [][NextOptions]_vars

Next ==
    \/ PreRunE
    \/ NewBackend
    \/ ParsePlatformFlags
    \/ ReadOptions
    \/ imagegetterNew
    \/ Get
    \/ Diff
    \/ Interpret

Spec == Init /\ [][Next]_vars

----------------------------------------------------------------------------
(* Properties of the result interpreter *)

\* the run has passed os.Exit
Exited == pc = "Exited"

\* the error diff.Diff returned was non-nil
DiffFailed == ~err.isNil

\* C1: whenever diff.Diff returns a non-nil error the process exits with
\* status 2, whatever report came with it (nil, no children, children)
C1_ErrorExitsWith2 ==
    (Exited /\ DiffFailed) => exitStatus = 2

\* a run that ended with an error and a report with children
C1_Witness ==
    /\ Exited
    /\ DiffFailed
    /\ ~report.isNil
    /\ report.children > 0
    /\ exitStatus = 2

\* C2: whenever diff.Diff returns a nil error the exit status is 1 exactly
\* when the report is non-nil with at least one child, and 0 otherwise
C2_NoErrorExitStatus ==
    (Exited /\ ~DiffFailed) =>
        /\ exitStatus = 1 <=> (~report.isNil /\ report.children >= 1)
        /\ exitStatus = 0 <=> (report.isNil \/ report.children = 0)

\* a run without error that ended with a non-nil report without children
C2_Witness ==
    /\ Exited
    /\ ~DiffFailed
    /\ ~report.isNil
    /\ report.children = 0
    /\ exitStatus = 0

----------------------------------------------------------------------------
(* Properties of the alias expansion *)

\* PreRunE has returned nil
Resolved == pc # "PreRunE" /\ retErr.isNil

FileTimeFlags == {"ignore-file-mtime", "ignore-file-atime", "ignore-file-ctime"}

SemanticTargets ==
    {"ignore-history", "ignore-file-order", "ignore-file-mode-redundant-bits",
     "ignore-file-mtime", "ignore-file-atime", "ignore-file-ctime",
     "ignore-image-timestamps", "ignore-image-name", "ignore-tar-format",
     "treat-canonical-paths-equal"}

\* C3: with semantic=true all ten aliased flags are true after PreRunE,
\* also those the user explicitly supplied as false
C3_SemanticSetsAllTen ==
    (pc # "PreRunE" /\ rawFlags["semantic"]) =>
        /\ retErr.isNil
        /\ \A f \in SemanticTargets : flags[f]

\* semantic=true with --ignore-history=false given explicitly
C3_Witness ==
    /\ Resolved
    /\ rawFlags["semantic"]
    /\ "ignore-history" \in supplied
    /\ ~rawFlags["ignore-history"]
    /\ flags["ignore-history"]

\* C4: with ignore-timestamps=true the three file timestamp flags and
\* ignore-image-timestamps are true after PreRunE, whatever semantic and
\* ignore-file-timestamps are
C4_IgnoreTimestampsSetsFour ==
    (pc # "PreRunE" /\ rawFlags["ignore-timestamps"]) =>
        /\ retErr.isNil
        /\ \A f \in FileTimeFlags \cup {"ignore-image-timestamps"} : flags[f]

\* ignore-timestamps alone, every target false on the command line
C4_Witness ==
    /\ Resolved
    /\ rawFlags["ignore-timestamps"]
    /\ ~rawFlags["semantic"]
    /\ ~rawFlags["ignore-file-timestamps"]
    /\ \A f \in FileTimeFlags \cup {"ignore-image-timestamps"} :
          ~rawFlags[f] /\ flags[f]

\* C5: with ignore-file-timestamps=true and the other two aliases false,
\* PreRunE sets the three file timestamp flags and leaves every other flag
\* (ignore-image-timestamps among them) at its raw value
C5_IgnoreFileTimestampsFrame ==
    (/\ pc # "PreRunE"
     /\ rawFlags["ignore-file-timestamps"]
     /\ ~rawFlags["semantic"]
     /\ ~rawFlags["ignore-timestamps"]) =>
        /\ retErr.isNil
        /\ \A f \in FileTimeFlags : flags[f]
        /\ \A f \in BoolFlags \ FileTimeFlags : flags[f] = rawFlags[f]

\* ignore-file-timestamps alone: file timestamps set, image timestamps not
C5_Witness ==
    /\ Resolved
    /\ rawFlags["ignore-file-timestamps"]
    /\ ~rawFlags["semantic"]
    /\ ~rawFlags["ignore-timestamps"]
    /\ \A f \in FileTimeFlags : ~rawFlags[f] /\ flags[f]
    /\ ~flags["ignore-image-timestamps"]

\* the six orders of the three alias blocks
Orders ==
    {<<1, 2, 3>>, <<1, 3, 2>>, <<2, 1, 3>>, <<2, 3, 1>>, <<3, 1, 2>>,
     <<3, 2, 1>>}

\* C6: applying the three alias blocks to the raw flags in any of the six
\* orders gives the flag values PreRunE leaves behind
C6_AliasOrderIrrelevant ==
    Resolved =>
        \A order \in Orders :
            ApplyInOrder(FlagSet(rawFlags, supplied), order).val = flags

\* all three aliases given, no target given
C6_Witness ==
    /\ Resolved
    /\ \A a \in AliasFlags : rawFlags[a]
    /\ \A f \in SemanticTargets : ~rawFlags[f] /\ flags[f]

----------------------------------------------------------------------------
(* Properties of the acquisition loop *)

\* the run has come to the diff.Diff call
AtComparison == pc \in {"Diff", "Interpret", "Exited"}

\* positions in logs of the "Input k" line
InputLines(k) ==
    {n \in 1..Len(logs) : logs[n].kind = "input" /\ logs[n].n = k}

\* C7: a run that reaches diff.Diff has called ig.Get exactly twice, for
\* args[0] and then args[1]; the descriptor at index i of the comparison is
\* the one returned for args[i]; "Input 0" is logged before "Input 1"
C7_TwoAcquisitionsInOrder ==
    AtComparison =>
        /\ Len(getCalls) = 2
        /\ \A k \in 1..2 :
            /\ getCalls[k].ref = args[k]
            /\ getCalls[k].ok
            /\ imageDescs[k] = getCalls[k].Target
            /\ diffCall.made => diffCall.descs[k] = getCalls[k].Target
            /\ Cardinality(InputLines(k - 1)) = 1
        /\ \A a \in InputLines(0), b \in InputLines(1) : a < b

\* diff.Diff was called with two different arguments and descriptors
C7_Witness ==
    /\ diffCall.made
    /\ args[1] # args[2]
    /\ diffCall.descs[1] # diffCall.descs[2]
    /\ Len(getCalls) = 2

\* some call of ig.Get returned an error
SomeGetFailed == \E k \in 1..Len(getCalls) : ~getCalls[k].ok

\* C8: once an acquisition has failed diff.Diff is not called, and after a
\* failed acquisition of image 0 image 1 is not asked for
C8_FailedAcquisitionAborts ==
    SomeGetFailed =>
        /\ ~diffCall.made
        /\ ~AtComparison
        /\ ~getCalls[Len(getCalls)].ok
        /\ \A k \in 1..Len(getCalls) - 1 : getCalls[k].ok
        /\ pc = "Returned"

\* image 0 was acquired and image 1 was not
C8_Witness ==
    /\ Len(getCalls) = 2
    /\ getCalls[1].ok
    /\ ~getCalls[2].ok
    /\ pc = "Returned"
    /\ ~diffCall.made

----------------------------------------------------------------------------
(* Properties of error handling and termination *)

\* the run is over: os.Exit was called, or an error went back to cobra
Ended == pc \in {"Exited", "Returned"}

ErrorLines == {n \in 1..Len(logs) : logs[n].level = "error"}

\* C9: every error of the pipeline reaches the result interpreter, is
\* logged exactly once and ends the process with exit status 2
C9_EveryErrorLoggedExit2 ==
    (Ended /\ (~retErr.isNil \/ ~err.isNil)) =>
        /\ pc = "Exited"
        /\ Cardinality(ErrorLines) = 1
        /\ exitStatus = 2

\* C10: when os.Exit is called every handle obtained by action has been
\* released
C10_ReleasedBeforeExit ==
    exitStatus # NoExit => held = {}

\* part occurs in msg as a run of consecutive elements
Contains(msg, part) ==
    \E k \in 0..(Len(msg) - Len(part)) :
        SubSeq(msg, k + 1, k + Len(part)) = part

\* some call of localpathutil.Expand returned an error
SomeExpandFailed == \E k \in 1..Len(expandCalls) : ~expandCalls[k].ok

\* C11: when the expansion of report-file or report-dir fails, the run
\* aborts with an error whose message has the flag's name and the path
\* the user supplied
C11_PathErrorNamesFlagAndPath ==
    \A k \in 1..Len(expandCalls) :
        ~expandCalls[k].ok =>
            /\ pc = "Returned"
            /\ ~retErr.isNil
            /\ expandCalls[k].flag \in Range(retErr.msg)
            /\ Contains(retErr.msg, expandCalls[k].path)

\* C12: the message logged for an error of diff.Diff is the error's message
\* followed by the hint when the error is unavailable, and the error's
\* message as it is otherwise
C12_LoggedMessage ==
    [][(pc = "Interpret" /\ ~err.isNil) =>
          /\ Len(logs') = Len(logs) + 2
          /\ logs'[Len(logs) + 1].level = "error"
          /\ logs'[Len(logs) + 1].text =
                IF err.unavailable THEN err.msg \o <<Hint>> ELSE err.msg]_vars

\* an unavailable error was logged with the hint
C12_Witness ==
    /\ Exited
    /\ err.unavailable
    /\ \E n \in ErrorLines : logs[n].text = <<"unavailable", Hint>>

\* C13: a failure while the configuration is built (an alias that cannot
\* set its target, a flag read that fails, a report path that cannot be
\* expanded) ends the run with neither ig.Get nor diff.Diff called
C13_ConfigFailureAborts ==
    (\/ SomeExpandFailed
     \/ pc = "Returned" /\ retErr.msg \in
            {<<"no such flag">>, <<"flag accessed but not defined">>}) =>
        /\ pc = "Returned"
        /\ ~retErr.isNil
        /\ getCalls = <<>>
        /\ ~diffCall.made
        /\ exitStatus = NoExit

\* report-file was expanded and report-dir was not
C13_Witness ==
    /\ Len(expandCalls) = 2
    /\ expandCalls[1].ok
    /\ ~expandCalls[2].ok
    /\ pc = "Returned"
    /\ getCalls = <<>>

\* C14: one line of error severity is logged in a run whose diff.Diff
\* returns an error, and none in a run whose diff.Diff returns no error
C14_ErrorLineCount ==
    /\ Exited => Cardinality(ErrorLines) = IF DiffFailed THEN 1 ELSE 0
    /\ ~Exited => ErrorLines = {}

\* differences found without an error: exit status 1 and no error line
C14_Witness ==
    /\ Exited
    /\ ~DiffFailed
    /\ exitStatus = 1
    /\ ErrorLines = {}

----------------------------------------------------------------------------
(* Properties of the configuration *)

\* the boolean toggles of the configuration and the flag each belongs to
ToggleFlag ==
    [IgnoreHistory |-> "ignore-history",
     IgnoreFileOrder |-> "ignore-file-order",
     IgnoreFileModeRedundantBits |-> "ignore-file-mode-redundant-bits",
     IgnoreFileMTime |-> "ignore-file-mtime",
     IgnoreFileATime |-> "ignore-file-atime",
     IgnoreFileCTime |-> "ignore-file-ctime",
     IgnoreFilePermissions |-> "extra-ignore-file-permissions",
     IgnoreFileMode |-> "extra-ignore-file-mode",
     IgnoreFileContent |-> "extra-ignore-file-content",
     IgnoreLayerLengthMismatch |-> "extra-ignore-layer-length-mismatch",
     IgnoreImageTimestamps |-> "ignore-image-timestamps",
     IgnoreImageName |-> "ignore-image-name",
     IgnoreTarFormat |-> "ignore-tar-format",
     CanonicalPaths |-> "treat-canonical-paths-equal"]

\* the targets each alias flag lists
AliasTargets ==
    [semantic |-> SemanticTargets,
     ignoreTimestamps |-> FileTimeFlags \cup {"ignore-image-timestamps"},
     ignoreFileTimestamps |-> FileTimeFlags]

\* f is true on the command line, or a true alias lists it
RawOrAliased(f) ==
    \/ rawFlags[f]
    \/ rawFlags["semantic"] /\ f \in AliasTargets.semantic
    \/ rawFlags["ignore-timestamps"] /\ f \in AliasTargets.ignoreTimestamps
    \/ rawFlags["ignore-file-timestamps"]
          /\ f \in AliasTargets.ignoreFileTimestamps

TogglesAsExpected(o) ==
    /\ \A t \in DOMAIN ToggleFlag : o[t] = RawOrAliased(ToggleFlag[t])
    /\ \A t \in DOMAIN ToggleFlag :
          ToggleFlag[t] \in ExtraFlags => o[t] = rawFlags[ToggleFlag[t]]

\* diff.Options has been built
OptionsBuilt == pc \in {"imagegetterNew", "Get", "Diff", "Interpret", "Exited"}

\* C15: every boolean toggle of the configuration built for diff.Diff is
\* true exactly when its own raw flag is true or a true alias flag lists
\* it; the four extra-ignore-* toggles equal their raw flags
C15_TogglesFromRawFlags ==
    /\ OptionsBuilt => TogglesAsExpected(options)
    /\ diffCall.made => TogglesAsExpected(diffCall.options)

\* ignore-file-timestamps and an extra flag given: the file time toggles
\* and the extra toggle are on, the image timestamp toggle is off
C15_Witness ==
    /\ OptionsBuilt
    /\ rawFlags["ignore-file-timestamps"]
    /\ ~rawFlags["ignore-file-atime"]
    /\ rawFlags["extra-ignore-file-content"]
    /\ options.IgnoreFileATime
    /\ options.IgnoreFileContent
    /\ ~options.IgnoreImageTimestamps
    /\ ~options.IgnoreFileMode

\* C16: whatever the value of --pull, also one that is no pull mode, the
\* options are built unless a path expansion fails, and both calls of
\* ig.Get are given that same string
C16_PullPassedUnchanged ==
    /\ [](\A k \in 1..Len(getCalls) : getCalls[k].mode = pull)
    /\ [](OptionsBuilt => pullMode = pull)
    /\ [][pc = "ReadOptions" =>
            \/ pc' = "imagegetterNew"
            \/ pc' = "Returned" /\ \E k \in 1..Len(expandCalls') :
                                      ~expandCalls'[k].ok]_vars

\* both images were acquired with a pull value that is no pull mode
C16_Witness ==
    /\ pull = "sometimes"
    /\ Len(getCalls) = 2
    /\ getCalls[1].ok /\ getCalls[2].ok
    /\ getCalls[1].mode = "sometimes"
    /\ getCalls[2].mode = "sometimes"

\* positions in logs of the "exiting with code" line
ExitCodeLines == {n \in 1..Len(logs) : logs[n].kind = "exiting with code"}

\* C17: in a run that reaches the interpreter the debug line with the exit
\* code is logged exactly when the exit status is not 0, states the status
\* the process exits with, and comes after the error line, before os.Exit
C17_ExitCodeLine ==
    /\ Exited =>
        /\ Cardinality(ExitCodeLines) = IF exitStatus # 0 THEN 1 ELSE 0
        /\ \A n \in ExitCodeLines :
            /\ logs[n].level = "debug"
            /\ logs[n].n = exitStatus
            /\ n = Len(logs)
            /\ \A m \in ErrorLines : m < n
    /\ ~Exited => ExitCodeLines = {}

\* exit status 2: the error line, then the exit code line
C17_Witness ==
    /\ Exited
    /\ exitStatus = 2
    /\ ErrorLines = {Len(logs) - 1}
    /\ ExitCodeLines = {Len(logs)}
    /\ logs[Len(logs)].n = 2

\* positions in logs of the report-file warning
WarningLines == {n \in 1..Len(logs) : logs[n].level = "warning"}

\* the run is over
RunOver == pc \in {"Exited", "Returned"}

\* action has come to the read of report-file: the platforms were
\* parsed and the step that reads the flags is done
ReportFileRead ==
    /\ pc \notin {"PreRunE", "NewBackend", "ParsePlatformFlags", "ReadOptions"}
    /\ \E n \in 1..Len(logs) : logs[n].kind = "platforms"

\* C18 as claimed: in every run with a non-empty report-file the warning is
\* logged exactly once, and never with an empty report-file
C18_WarningInEveryRun ==
    RunOver =>
        Cardinality(WarningLines) = IF reportFile # NoPath THEN 1 ELSE 0

\* C18 as amended: the warning is logged exactly once in every run with a
\* non-empty report-file that comes to the read of report-file (backend and
\* platforms were obtained), and in no other run
C18_WarningOnceWhenRead ==
    Cardinality(WarningLines) =
        IF reportFile # NoPath /\ ReportFileRead THEN 1 ELSE 0

\* the warning was logged although the expansion of report-file failed
C18_Witness ==
    /\ pc = "Returned"
    /\ reportFile # NoPath
    /\ Len(expandCalls) = 1
    /\ ~expandCalls[1].ok
    /\ Cardinality(WarningLines) = 1

\* C19: os.Exit is called only after diff.Diff has returned, with a status
\* among 0, 1, 2; a run that reaches diff.Diff ends in os.Exit and does not
\* return from action; a run that aborts earlier returns its error to the
\* caller, and action neither logs it nor chooses an exit status
C19_ExitOnlyAfterComparison ==
    /\ exitStatus # NoExit => diffCall.made /\ Exited
    /\ Exited => exitStatus \in {0, 1, 2} /\ retErr.isNil /\ diffCall.made
    /\ diffCall.made => pc \in {"Interpret", "Exited"}
    /\ pc = "Interpret" => ENABLED Interpret
    /\ pc = "Returned" =>
        /\ ~retErr.isNil
        /\ ~diffCall.made
        /\ exitStatus = NoExit
        /\ exitCode = 0
        /\ ErrorLines = {}
        /\ ExitCodeLines = {}

\* image 0 could not be acquired: the error is returned, nothing is logged
\* at error severity and os.Exit is not called
C19_Witness ==
    /\ pc = "Returned"
    /\ Len(getCalls) = 1
    /\ ~getCalls[1].ok
    /\ ~retErr.isNil
    /\ exitStatus = NoExit
    /\ ErrorLines = {}

====
